---------------------------- MODULE Spec2Model ----------------------------
(***************************************************************************)
(* Model of the MODIS water-detection code of the Crisis Mapping Toolkit:  *)
(*   cmt/modis/dnns.py             dnns, dnns_dem, dnns_revised            *)
(*   cmt/modis/modis_utilities.py  getQABits, getModisBadPixelMask,        *)
(*                                 compute_binary_threshold                *)
(*                                                                         *)
(* Rasters are functions from pixels to values.  The raster operations of  *)
(* the Earth Engine client (add, divide, clamp, convolve, mask, ...) are   *)
(* modelled by what they compute per pixel.  Pixel values are exact        *)
(* rationals [n, d] with d > 0 in lowest terms; d = 0 stands for a masked  *)
(* pixel (no data).  Floating-point rounding is not modelled.              *)
(***************************************************************************)
EXTENDS Integers, Sequences, FiniteSets, TLC

(***************************************************************************)
(* Bounds of the model.                                                    *)
(***************************************************************************)
\* band-6 reflectances are drawn from 0..MaxRefl
MaxRefl == 2
\* DEM elevations are drawn from -1..MaxDem
MaxDem == 1
\* a histogram has 1..MaxBins buckets
MaxBins == 2
\* bucket counts are drawn from 0..MaxCount and the count MIXED_RATIO_INV
MaxCount == 1
\* quality values are drawn from 0..MaxQA
MaxQA == 15

(***************************************************************************)
(* Program constants.                                                      *)
(***************************************************************************)
KERNEL_SIZE == 40
MODIS_PIXEL_SIZE_METERS == 250
WATER_DEM_KERNEL_METERS == 5000
\* the ratio 0.05 of the mixed thresholds is 1 / MIXED_RATIO_INV
MIXED_RATIO_INV == 20
MIN_PUREWATER_NEARBY == 1
MIN_PURE_NEARBY == 1
\* dnns_revised has its own KERNEL_SIZE and MIN_PURE_NEARBY
KERNEL_SIZE_REVISED == 1
MIN_PURE_NEARBY_REVISED == 10
PURELAND_THRESHOLD == 3500

\* The pixels of the region, by their position along a row of the raster: two
\* adjacent pixels and one that the window of the second still reaches and the
\* window of the first does not.  The rest of the row lies outside the region.
Pixels == {1, 2, KERNEL_SIZE + 2}
\* Reflectances of bands 1 and 2.
LowBandVals == {0, 1}
\* The DEM is finer than MODIS: each MODIS pixel holds these DEM pixels, and
\* the DEM pixel <<c, k>> is the k-th one inside MODIS pixel c.
SubPixels == {1, 2}
DemPixels == Pixels \X SubPixels
DemVals == -1..MaxDem

(***************************************************************************)
(* Exact rational arithmetic.                                              *)
(***************************************************************************)
Abs(x) == IF x < 0 THEN -x ELSE x

RECURSIVE GCD(_, _)
GCD(a, b) == IF b = 0 THEN a ELSE GCD(b, a % b)

\* n/d in lowest terms with positive denominator (d # 0)
Rat(n, d) ==
    LET g == GCD(Abs(n), Abs(d))
        s == IF d < 0 THEN -1 ELSE 1
    IN  [n |-> s * (n \div g), d |-> s * (d \div g)]

FromInt(k) == [n |-> k, d |-> 1]
Zero == FromInt(0)
One == FromInt(1)
\* a masked pixel
NoData == [n |-> 0, d |-> 0]
IsData(a) == a.d > 0

RLt(a, b) == a.n * b.d < b.n * a.d
RLe(a, b) == a.n * b.d <= b.n * a.d

\* ee.Image.add / subtract / multiply: masked where either operand is masked
ImgAdd(a, b) ==
    IF IsData(a) /\ IsData(b) THEN Rat(a.n * b.d + b.n * a.d, a.d * b.d) ELSE NoData
ImgSubtract(a, b) ==
    IF IsData(a) /\ IsData(b) THEN Rat(a.n * b.d - b.n * a.d, a.d * b.d) ELSE NoData
ImgMultiply(a, b) ==
    IF IsData(a) /\ IsData(b) THEN Rat(a.n * b.n, a.d * b.d) ELSE NoData
\* ee.Image.divide: the quotient, and 0 for a division by 0
ImgDivide(a, b) ==
    IF IsData(a) /\ IsData(b)
    THEN IF b.n = 0 THEN Zero ELSE Rat(a.n * b.d, a.d * b.n)
    ELSE NoData
\* ee.Image.clamp(0, 1)
Clamp01(a) ==
    IF ~IsData(a) THEN NoData
    ELSE IF RLt(a, Zero) THEN Zero
    ELSE IF RLt(One, a) THEN One
    ELSE a
\* ee.Image.Not: 1 where the value is 0, else 0
ImgNot(a) == IF ~IsData(a) THEN NoData ELSE IF a.n = 0 THEN One ELSE Zero
\* comparisons gte / lt / gt as 0-1 images
Bool01(c) == IF c THEN One ELSE Zero

RECURSIVE SumOver(_, _)
\* sum of f[q] over q in S (integers)
SumOver(f, S) ==
    IF S = {} THEN 0
    ELSE LET q == CHOOSE x \in S : TRUE IN f[q] + SumOver(f, S \ {q})


VARIABLES
    \* dnns / dnns_dem: the input bands, the pure-class masks and the DEM
    b1, b2, b6, pureWater, pureLand, dem,
    \* dnns: the rasters it computes
    pureWaterRef, meanPureLand, water_fraction,
    \* dnns_dem: the rasters it computes
    water_high, average_high, flooded,
    \* dnns_revised: the rasters it computes
    averageWaterLocal, averagePureLandLocal, waterOff,
    pc,
    \* compute_binary_threshold: the two histograms, the mode, the loop state
    \* and the results
    histogramTrue, histogramFalse, mixed_thresholds,
    i, true_sum, false_sum, false_index, lower_mixed_index, upper_mixed_index,
    threshold, lower, upper, tpc,
    \* the largest value of the true class and the smallest of the false class
    \* in the data the histograms were built from
    trueMaxVal, falseMinVal,
    \* getQABits / getModisBadPixelMask: the quality value of a pixel, the
    \* arguments and result of the last getQABits call, the cloud flag
    state_1km, qaStart, qaEnd, qaBits, cloud, qpc

dnnsVars == <<b1, b2, b6, pureWater, pureLand, dem, pureWaterRef, meanPureLand,
              water_fraction, water_high, average_high, flooded,
              averageWaterLocal, averagePureLandLocal, waterOff, pc>>

thresholdVars ==
    <<histogramTrue, histogramFalse, mixed_thresholds, i, true_sum, false_sum,
      false_index, lower_mixed_index, upper_mixed_index, threshold, lower, upper,
      tpc, trueMaxVal, falseMinVal>>
qaVars == <<state_1km, qaStart, qaEnd, qaBits, cloud, qpc>>

(***************************************************************************)
(* dnns (dnns.py 39-151)                                                   *)
(***************************************************************************)
\* the bands of composite_image
Bands == {"sur_refl_b01", "sur_refl_b02", "sur_refl_b06"}
composite_image(k) ==
    IF k = "sur_refl_b01" THEN b1 ELSE IF k = "sur_refl_b02" THEN b2 ELSE b6

\* ee.Kernel.square(KERNEL_SIZE, 'pixels'): the pixels of the raster that lie
\* in the window centred on p
kernel(p) == {q \in Pixels : Abs(p - q) <= KERNEL_SIZE}

\* reduceRegion(ee.Reducer.mean()) of a band over the pixels of class cls; no
\* value (None, which ee.Image turns into an image without data) when the
\* class has no pixel
RegionMean(cls, band) ==
    LET S == {q \in Pixels : cls[q] = 1}
    IN  IF S = {} THEN NoData ELSE Rat(SumOver(band, S), Cardinality(S))

\* lines 87-88 and 100-103
averageWaterImage == [k \in Bands |-> RegionMean(pureWater, composite_image(k))]
averagePureLandImage == [k \in Bands |-> RegionMean(pureLand, composite_image(k))]

\* line 91
pureWaterCount(p) == Cardinality({q \in kernel(p) : pureWater[q] = 1})

\* line 94: class sum in the window, gated by the count, divided by the count
localWater(band, p) ==
    LET cnt == pureWaterCount(p)
        sum == SumOver(band, {q \in kernel(p) : pureWater[q] = 1})
    IN  ImgDivide(ImgMultiply(FromInt(sum), Bool01(cnt >= MIN_PUREWATER_NEARBY)),
                  FromInt(cnt))

\* line 96: add the global average where the local value is 0
pureWaterRefAt(avg, p) ==
    [k \in Bands |->
        LET loc == localWater(composite_image(k), p)
        IN  ImgAdd(loc, ImgMultiply(avg[k], ImgNot(loc)))]

\* lines 106-109
oneOverSix(p) == ImgDivide(FromInt(b1[p]), FromInt(b6[p]))
twoOverSix(p) == ImgDivide(FromInt(b2[p]), FromInt(b6[p]))
eqTenLeft(wref, p) ==
    ImgSubtract(oneOverSix(p), ImgDivide(wref[p]["sur_refl_b01"], FromInt(b6[p])))
eqElevenLeft(wref, p) ==
    ImgSubtract(twoOverSix(p), ImgDivide(wref[p]["sur_refl_b02"], FromInt(b6[p])))

\* lines 119-120: a nearby ratio lies strictly between the left-hand side and
\* the centre pixel's own ratio
eqTenMatches(left, centre, nearby) == RLt(left, nearby) /\ RLt(nearby, centre)
eqElevenMatches(left, centre, nearby) == RLt(left, nearby) /\ RLt(nearby, centre)

\* line 121: the neighbours of p that meet equations 10 and 11 (none where a
\* left-hand side has no data)
nearbyLandPixels(wref, p) ==
    LET l10 == eqTenLeft(wref, p)
        l11 == eqElevenLeft(wref, p)
        c10 == oneOverSix(p)
        c11 == twoOverSix(p)
    IN  IF ~IsData(l10) \/ ~IsData(l11) THEN {}
        ELSE {q \in kernel(p) : /\ eqTenMatches(l10, c10, oneOverSix(q))
                                /\ eqElevenMatches(l11, c11, twoOverSix(q))}

\* lines 124-133: the mean of each band over the matching neighbours where
\* there is one, else the global pure-land average; no data where the water
\* reference or the global average has none
meanPureLandAt(wref, avg, p) ==
    LET near == nearbyLandPixels(wref, p)
        numNearbyLandPixels == Cardinality(near)
        masked == ~IsData(eqTenLeft(wref, p)) \/ ~IsData(eqElevenLeft(wref, p))
    IN  [k \in Bands |->
            LET meanNearbyBand ==
                    ImgDivide(FromInt(SumOver(composite_image(k), near)),
                              FromInt(numNearbyLandPixels))
            IN  IF masked THEN NoData
                ELSE ImgAdd(ImgMultiply(meanNearbyBand,
                                Bool01(numNearbyLandPixels >= MIN_PURE_NEARBY)),
                            ImgMultiply(avg[k],
                                Bool01(numNearbyLandPixels < MIN_PURE_NEARBY)))]

\* line 138: the band-6 mixture inversion, clamped
inversion(land, wref, p) ==
    LET meanPureLandSix == land[p]["sur_refl_b06"]
    IN  Clamp01(ImgDivide(ImgSubtract(meanPureLandSix, FromInt(b6[p])),
                          ImgSubtract(meanPureLandSix, wref[p]["sur_refl_b06"])))

\* mutants of line 141: the final clamp left out; the pure-water indicator not
\* added; the pure-land indicator not subtracted
pinnedNoClamp(land, wref, p) ==
    ImgSubtract(ImgAdd(inversion(land, wref, p), FromInt(pureWater[p])),
                FromInt(pureLand[p]))
pinnedNoWater(land, wref, p) ==
    Clamp01(ImgSubtract(inversion(land, wref, p), FromInt(pureLand[p])))
pinnedNoLand(land, wref, p) ==
    Clamp01(ImgAdd(inversion(land, wref, p), FromInt(pureWater[p])))

\* line 141: pin pure water to 1 and pure land to 0
pinned(land, wref, p) ==
    Clamp01(ImgSubtract(ImgAdd(inversion(land, wref, p), FromInt(pureWater[p])),
                        FromInt(pureLand[p])))

Unset == <<>>

\* a raster computed once: the function with its values worked out
Raster(f) == f @@ Unset

\* the classes of a pixel: water, land or mixed (lines 82-86: a pixel is never
\* both pure water and pure land)
ClassPairs == {<<1, 0>>, <<0, 1>>, <<0, 0>>}

InitDnns ==
    /\ b1 \in [Pixels -> LowBandVals]
    /\ b2 \in [Pixels -> LowBandVals]
    /\ b6 \in [Pixels -> 0..MaxRefl]
    /\ \E cls \in [Pixels -> ClassPairs] :
          /\ pureWater = [p \in Pixels |-> cls[p][1]]
          /\ pureLand = [p \in Pixels |-> cls[p][2]]
    /\ dem = Unset
    /\ pureWaterRef = Unset
    /\ meanPureLand = Unset
    /\ water_fraction = Unset
    /\ water_high = Unset
    /\ average_high = Unset
    /\ flooded = Unset
    /\ averageWaterLocal = Unset /\ averagePureLandLocal = Unset /\ waterOff = Unset
    /\ pc = "start"

\* the rasters of one run of dnns
DnnsRasters ==
    /\ pureWaterRef' =
          Raster([p \in Pixels |-> Raster(pureWaterRefAt(Raster(averageWaterImage), p))])
    /\ meanPureLand' =
          Raster([p \in Pixels |->
              Raster(meanPureLandAt(pureWaterRef', Raster(averagePureLandImage), p))])
    /\ water_fraction' =
          Raster([p \in Pixels |-> pinned(meanPureLand', pureWaterRef', p)])

Dnns ==
    /\ pc = "start"
    /\ DnnsRasters
    /\ pc' = "dnns_done"
    /\ UNCHANGED <<b1, b2, b6, pureWater, pureLand, dem, water_high, average_high,
                   flooded, averageWaterLocal, averagePureLandLocal, waterOff>>
    /\ UNCHANGED <<thresholdVars, qaVars>>

(***************************************************************************)
(* dnns_dem (dnns.py 158-225)                                              *)
(***************************************************************************)
\* position of a DEM pixel along the row, in DEM pixels
DemPos(f) == (f[1] - 1) * Cardinality(SubPixels) + f[2]
\* the water fraction sampled at a DEM pixel: that of the MODIS pixel around it
FractionAt(wf, f) == wf[f[1]]

\* dem.mask(water_fraction): data where the fraction is a value other than 0
demMasked(wf, f) ==
    IF IsData(FractionAt(wf, f)) /\ FractionAt(wf, f).n # 0
    THEN FromInt(dem[f]) ELSE NoData

\* the square window of radius MODIS_PIXEL_SIZE_METERS around a DEM pixel
\* (a DEM pixel is MODIS_PIXEL_SIZE_METERS / |SubPixels| wide)
focalWindow(f) ==
    {g \in DemPixels : Abs(DemPos(f) - DemPos(g)) <= Cardinality(SubPixels)}

\* the circular window of water_dem_kernel
water_dem_kernel(f) ==
    {g \in DemPixels :
        Abs(DemPos(f) - DemPos(g)) * MODIS_PIXEL_SIZE_METERS
            <= WATER_DEM_KERNEL_METERS * Cardinality(SubPixels)}

\* lines 186-187: focal_min / focal_max over the pixels of the window that have
\* data; no data where the window has none
dem_min(wf, f) ==
    LET S == {g \in focalWindow(f) : IsData(demMasked(wf, g))}
    IN  IF S = {} THEN NoData
        ELSE FromInt(dem[CHOOSE g \in S : \A h \in S : dem[g] <= dem[h]])
dem_max(wf, f) ==
    LET S == {g \in focalWindow(f) : IsData(demMasked(wf, g))}
    IN  IF S = {} THEN NoData
        ELSE FromInt(dem[CHOOSE g \in S : \A h \in S : dem[g] >= dem[h]])

\* lines 192-193: the candidate water elevation, 0 in full and empty pixels
waterHighAt(wf, f) ==
    LET lo == dem_min(wf, f)
        hi == dem_max(wf, f)
        fr == FractionAt(wf, f)
        lin == ImgAdd(lo, ImgMultiply(ImgSubtract(hi, lo), fr))
    IN  ImgMultiply(ImgMultiply(lin, Bool01(IsData(fr) /\ RLt(fr, One))),
                    Bool01(IsData(fr) /\ RLt(Zero, fr)))

RECURSIVE RatSum(_, _)
\* sum of the rationals g[x], x in S
RatSum(g, S) ==
    IF S = {} THEN Zero
    ELSE LET x == CHOOSE y \in S : TRUE IN ImgAdd(g[x], RatSum(g, S \ {x}))

\* lines 203-204: convolve sums the pixels of the window that have data
averageHighAt(wh, f) ==
    LET S == {g \in water_dem_kernel(f) : IsData(wh[g])}
        num_nearby_water_pixels == Cardinality({g \in S : RLt(Zero, wh[g])})
    IN  IF S = {} THEN NoData
        ELSE ImgDivide(RatSum(wh, S), FromInt(num_nearby_water_pixels))

\* mutant of line 224: the mask left out (the variant of line 223)
dem_waterUnmasked(wf, avg, f) ==
    IF ~IsData(avg[f]) THEN NoData ELSE Bool01(RLe(FromInt(dem[f]), avg[f]))

\* line 224: dem <= average_high, kept where the fraction is not 0
dem_water(wf, avg, f) ==
    LET fr == FractionAt(wf, f)
    IN  IF ~IsData(fr) \/ fr.n = 0 \/ ~IsData(avg[f]) THEN NoData
        ELSE Bool01(RLe(FromInt(dem[f]), avg[f]))

\* line 225: ... or the fraction is 1
floodedAt(wf, avg, f) ==
    LET fr == FractionAt(wf, f)
        dw == dem_water(wf, avg, f)
    IN  IF ~IsData(dw) \/ ~IsData(fr) THEN NoData
        ELSE Bool01(dw.n # 0 \/ fr = One)

\* The scenes dnns_dem is run on here: the region has pure water and pure
\* land, pure water is dark in band 6 and pure land bright, bands 1 and 2 are
\* uniform; mixed pixels and the DEM are free.
InitDem ==
    /\ b1 = [p \in Pixels |-> 1]
    /\ b2 = [p \in Pixels |-> 1]
    /\ b6 \in [Pixels -> 0..MaxRefl]
    /\ \E cls \in [Pixels -> ClassPairs] :
          /\ pureWater = [p \in Pixels |-> cls[p][1]]
          /\ pureLand = [p \in Pixels |-> cls[p][2]]
    /\ \E p \in Pixels : pureWater[p] = 1
    /\ \E p \in Pixels : pureLand[p] = 1
    /\ \A p \in Pixels : pureWater[p] = 1 => b6[p] = 0
    /\ \A p \in Pixels : pureLand[p] = 1 => b6[p] = MaxRefl
    /\ dem \in [DemPixels -> DemVals]
    /\ pureWaterRef = Unset
    /\ meanPureLand = Unset
    /\ water_fraction = Unset
    /\ water_high = Unset
    /\ average_high = Unset
    /\ flooded = Unset
    /\ averageWaterLocal = Unset /\ averagePureLandLocal = Unset /\ waterOff = Unset
    /\ pc = "start"

DnnsDem ==
    /\ pc = "start"
    /\ DnnsRasters
    /\ water_high' = Raster([f \in DemPixels |-> waterHighAt(water_fraction', f)])
    /\ average_high' = Raster([f \in DemPixels |-> averageHighAt(water_high', f)])
    /\ flooded' =
          Raster([f \in DemPixels |-> floodedAt(water_fraction', average_high', f)])
    /\ pc' = "dem_done"
    /\ UNCHANGED <<b1, b2, b6, pureWater, pureLand, dem, averageWaterLocal,
                   averagePureLandLocal, waterOff>>
    /\ UNCHANGED <<thresholdVars, qaVars>>

(***************************************************************************)
(* dnns_revised (dnns.py 231-346)                                          *)
(*                                                                         *)
(* pureWater is the result of modis_diff, an input here.  The nearby-land  *)
(* search of lines 278-305 is only displayed and does not reach the        *)
(* result.                                                                 *)
(***************************************************************************)
\* line 245: ee.Kernel.square(KERNEL_SIZE, 'pixels') with KERNEL_SIZE = 1
kernel_revised(p) == {q \in Pixels : Abs(p - q) <= KERNEL_SIZE_REVISED}

\* line 270: b2 - b1 >= PURELAND_THRESHOLD
pureLandRevised(p) == IF b2[p] - b1[p] >= PURELAND_THRESHOLD THEN 1 ELSE 0

\* lines 260-263 and 273-274: class sum in the window, gated by the count,
\* divided by the count
localRevised(cls, band, p) ==
    LET S == {q \in kernel_revised(p) : cls[q] = 1}
        cnt == Cardinality(S)
    IN  ImgDivide(ImgMultiply(FromInt(SumOver(band, S)),
                              Bool01(cnt >= MIN_PURE_NEARBY_REVISED)),
                  FromInt(cnt))

\* lines 265 and 275: add the global average where the local value is 0
averageLocalAt(cls, avg, p) ==
    [k \in Bands |->
        LET loc == localRevised(cls, composite_image(k), p)
        IN  ImgAdd(loc, ImgMultiply(avg[k], ImgNot(loc)))]

\* lines 316-318: the sum of the squared band differences (the square of the
\* distance)
SquaredDist(a, c) ==
    RatSum([k \in Bands |-> ImgMultiply(ImgSubtract(a[k], c[k]),
                                        ImgSubtract(a[k], c[k]))], Bands)

\* lines 312-329.  waterOff = landDist / typeDist is a quotient of square
\* roots; lines 328-329 square it and compare it with 0.6, so the model
\* carries the square.  Lines 324-325 turn it into 0 in a pure-land pixel and
\* then into 1 in a pure-water pixel.
waterOffAt(land, water, cls, p) ==
    LET here == [k \in Bands |-> FromInt(composite_image(k)[p])]
        landDist2 == SquaredDist(land[p], here)
        typeDist2 == SquaredDist(land[p], water[p])
        squared == ImgDivide(landDist2, typeDist2)
    IN  IF ~IsData(squared) THEN NoData
        ELSE IF pureWater[p] = 1 THEN One
        ELSE IF cls[p] = 1 THEN Zero
        ELSE Bool01(RLt(Rat(3, 5), squared))

\* the scenes dnns_revised is run on here: band 2 is dark or bright enough for
\* pure land
InitRevised ==
    /\ b1 \in [Pixels -> LowBandVals]
    /\ b2 \in [Pixels -> {0, PURELAND_THRESHOLD}]
    /\ b6 \in [Pixels -> 0..MaxRefl]
    /\ pureWater \in [Pixels -> {0, 1}]
    /\ pureLand = Unset
    /\ dem = Unset
    /\ pureWaterRef = Unset
    /\ meanPureLand = Unset
    /\ water_fraction = Unset
    /\ water_high = Unset
    /\ average_high = Unset
    /\ flooded = Unset
    /\ averageWaterLocal = Unset /\ averagePureLandLocal = Unset /\ waterOff = Unset
    /\ pc = "start"

DnnsRevised ==
    /\ pc = "start"
    /\ pureLand' = Raster([p \in Pixels |-> pureLandRevised(p)])
    /\ averageWaterLocal' =
          Raster([p \in Pixels |->
              Raster(averageLocalAt(pureWater, Raster(averageWaterImage), p))])
    /\ averagePureLandLocal' =
          Raster([p \in Pixels |->
              Raster(averageLocalAt(pureLand',
                  Raster([k \in Bands |-> RegionMean(pureLand', composite_image(k))]),
                  p))])
    /\ waterOff' =
          Raster([p \in Pixels |->
              waterOffAt(averagePureLandLocal', averageWaterLocal', pureLand', p)])
    /\ pc' = "revised_done"
    /\ UNCHANGED <<b1, b2, b6, pureWater, dem, pureWaterRef, meanPureLand,
                   water_fraction, water_high, average_high, flooded>>
    /\ UNCHANGED <<thresholdVars, qaVars>>

vars == <<dnnsVars, thresholdVars, qaVars>>

(***************************************************************************)
(* compute_binary_threshold (modis_utilities.py 106-171)                   *)
(*                                                                         *)
(* The histograms are the dictionaries fetched at lines 114-115:           *)
(* bucketMin, bucketWidth and the list of bucket counts.  The code is      *)
(* Python 2, where x / y is the floor of the quotient when both operands   *)
(* are ints: a number of the fetched dictionary is an int or a float, so   *)
(* a histogram also says whether its bucket counts are ints (countsInt)    *)
(* and whether its bucketWidth is one (widthInt).                          *)
(***************************************************************************)
None == <<>>

RECURSIVE SeqSum(_)
SeqSum(sq) == IF sq = <<>> THEN 0 ELSE Head(sq) + SeqSum(Tail(sq))

\* lines 118-119
false_total == SeqSum(histogramFalse.histogram)
true_total == SeqSum(histogramTrue.histogram)

RECURSIVE SkipFalseBuckets(_, _, _)
\* lines 139-142: the while loop, from (index, sum) to its exit
SkipFalseBuckets(index, sum, x) ==
    IF /\ index < Len(histogramFalse.histogram)
       /\ histogramFalse.bucketMin + index * histogramFalse.bucketWidth < x
    THEN SkipFalseBuckets(index + 1, sum - histogramFalse.histogram[index + 1], x)
    ELSE <<index, sum>>

\* line 153 with lines 144-145: percent_false_over_thresh < percent_true_under_thresh
\* and percent_true_under_thresh > 0.5.  true_sum is a float, so the true
\* percentage is the quotient; false_sum / false_total is floored when the
\* false counts are ints
BreakCondition(ts, fs) ==
    LET percent_false_over_thresh ==
            IF histogramFalse.countsInt
            THEN FromInt(fs \div false_total)
            ELSE Rat(fs, false_total)
        percent_true_under_thresh == Rat(ts, true_total)
    IN  /\ RLt(percent_false_over_thresh, percent_true_under_thresh)
        /\ RLt(Rat(1, 2), percent_true_under_thresh)

\* line 148: (false_total - false_sum) / float(true_sum) <= 0.05, true_sum # 0
LowerCondition(ts, fs) == MIXED_RATIO_INV * (false_total - fs) <= ts
\* line 150: (true_total - true_sum) / float(false_sum) <= 0.05, false_sum # 0
UpperCondition(ts, fs) == MIXED_RATIO_INV * (true_total - ts) <= fs

\* lines 158, 159, 168: bucketMin + k * bucketWidth + bucketWidth / 2, where
\* bucketWidth / 2 is floored when bucketWidth is an int
BinCenter(k) ==
    LET w == histogramTrue.bucketWidth
        half == IF histogramTrue.widthInt THEN FromInt(w \div 2) ELSE Rat(w, 2)
    IN  ImgAdd(FromInt(histogramTrue.bucketMin + k * w), half)

\* mutant of lines 160-163: the swap left out
OrderedNoSwap(lo, up) == <<lo, up>>

\* lines 160-163: swap the two thresholds when lower > upper
Ordered(lo, up) == IF RLt(up, lo) THEN <<up, lo>> ELSE <<lo, up>>

\* the bucket counts of the model
CountVals == (0..MaxCount) \cup {MIXED_RATIO_INV}
Widths == {1, 2}
CountLists == UNION {[1..n -> CountVals] : n \in 1..MaxBins}
Histograms(mins) ==
    {[bucketMin |-> m, bucketWidth |-> w, histogram |-> h, countsInt |-> ci,
      widthInt |-> wi] :
        m \in mins, w \in Widths,
        h \in {c \in CountLists : SeqSum(c) > 0},
        ci \in BOOLEAN, wi \in BOOLEAN}

\* lines 124-129; the histograms are any two with a positive total.  Only the
\* width of the true histogram and the counts of the false one are ever
\* divided, so the other kinds are fixed.
InitThreshold ==
    /\ histogramTrue \in {h \in Histograms({0}) : h.countsInt = FALSE}
    /\ histogramFalse \in {h \in Histograms(0..2) : h.widthInt = FALSE}
    /\ mixed_thresholds \in BOOLEAN
    /\ i = -1
    /\ false_index = 0
    /\ false_sum = false_total
    /\ true_sum = 0
    /\ lower_mixed_index = None
    /\ upper_mixed_index = None
    /\ threshold = Unset /\ lower = Unset /\ upper = Unset
    /\ trueMaxVal = Unset /\ falseMinVal = Unset
    /\ tpc = "loop"

\* lines 130-154: one pass of the for loop, for the next bin of the true
\* histogram.  A division by zero at line 148 or 150 raises ZeroDivisionError.
ScanBin ==
    /\ tpc = "loop"
    /\ i + 1 < Len(histogramTrue.histogram)
    /\ LET bin == i + 1
           ts == true_sum + histogramTrue.histogram[bin + 1]
           x == histogramTrue.bucketMin + (bin + 1) * histogramTrue.bucketWidth
           skipped == SkipFalseBuckets(false_index, false_sum, x)
           fs == skipped[2]
       IN  /\ i' = bin
           /\ true_sum' = ts
           /\ false_index' = skipped[1]
           /\ false_sum' = fs
           /\ IF mixed_thresholds
              THEN IF ts = 0
                   THEN /\ tpc' = "error"
                        /\ UNCHANGED <<lower_mixed_index, upper_mixed_index>>
                   ELSE /\ lower_mixed_index' =
                              IF LowerCondition(ts, fs) THEN <<bin>>
                              ELSE lower_mixed_index
                        /\ IF upper_mixed_index = None /\ fs = 0
                           THEN tpc' = "error" /\ UNCHANGED upper_mixed_index
                           ELSE /\ upper_mixed_index' =
                                      IF upper_mixed_index = None /\ UpperCondition(ts, fs)
                                      THEN <<bin>> ELSE upper_mixed_index
                                /\ tpc' = "loop"
              ELSE /\ tpc' = IF BreakCondition(ts, fs) THEN "after_loop" ELSE "loop"
                   /\ UNCHANGED <<lower_mixed_index, upper_mixed_index>>
    /\ UNCHANGED <<histogramTrue, histogramFalse, mixed_thresholds, threshold, lower,
                   upper, trueMaxVal, falseMinVal>>
    /\ UNCHANGED <<dnnsVars, qaVars>>

\* line 130: the for loop ends after the last bin; i keeps its last value
ExitLoop ==
    /\ tpc = "loop"
    /\ i + 1 = Len(histogramTrue.histogram)
    /\ tpc' = "after_loop"
    /\ UNCHANGED <<histogramTrue, histogramFalse, mixed_thresholds, i, true_sum,
                   false_sum, false_index, lower_mixed_index, upper_mixed_index,
                   threshold, lower, upper, trueMaxVal, falseMinVal>>
    /\ UNCHANGED <<dnnsVars, qaVars>>

\* mutant of lines 157-165: an index that is still None is taken as bin 0
\* instead of raising
ReturnUnsetAsFirstBin ==
    /\ tpc = "after_loop"
    /\ IF mixed_thresholds
       THEN LET lo == BinCenter(IF lower_mixed_index = None THEN 0
                                ELSE lower_mixed_index[1])
                up == BinCenter(IF upper_mixed_index = None THEN 0
                                ELSE upper_mixed_index[1])
            IN  /\ lower' = Ordered(lo, up)[1]
                /\ upper' = Ordered(lo, up)[2]
                /\ tpc' = "returned"
                /\ UNCHANGED threshold
       ELSE /\ threshold' = BinCenter(i)
            /\ tpc' = "returned"
            /\ UNCHANGED <<lower, upper>>
    /\ UNCHANGED <<histogramTrue, histogramFalse, mixed_thresholds, i, true_sum,
                   false_sum, false_index, lower_mixed_index, upper_mixed_index,
                   trueMaxVal, falseMinVal>>
    /\ UNCHANGED <<dnnsVars, qaVars>>

\* lines 157-171; None * bucketWidth raises TypeError
Return ==
    /\ tpc = "after_loop"
    /\ IF mixed_thresholds
       THEN IF lower_mixed_index = None \/ upper_mixed_index = None
            THEN tpc' = "error" /\ UNCHANGED <<threshold, lower, upper>>
            ELSE LET lo == BinCenter(lower_mixed_index[1])
                     up == BinCenter(upper_mixed_index[1])
                 IN  /\ lower' = Ordered(lo, up)[1]
                     /\ upper' = Ordered(lo, up)[2]
                     /\ tpc' = "returned"
                     /\ UNCHANGED threshold
       ELSE /\ threshold' = BinCenter(i)
            /\ tpc' = "returned"
            /\ UNCHANGED <<lower, upper>>
    /\ UNCHANGED <<histogramTrue, histogramFalse, mixed_thresholds, i, true_sum,
                   false_sum, false_index, lower_mixed_index, upper_mixed_index,
                   trueMaxVal, falseMinVal>>
    /\ UNCHANGED <<dnnsVars, qaVars>>

\* The histograms of two classes that do not overlap: the first and the last
\* bucket of each hold data (a histogram spans the data), the largest true
\* value lies in the last true bin, the smallest false value in the first
\* false bucket, and every false value is above every true value.  Values are
\* multiples of 1/4.
ValuesIn(h, k) ==
    {Rat(4 * (h.bucketMin + k * h.bucketWidth) + j, 4) : j \in 0..(4 * h.bucketWidth - 1)}
SpansData(h) == h.histogram[1] > 0 /\ h.histogram[Len(h.histogram)] > 0

InitSeparated ==
    /\ histogramTrue \in {h \in Histograms({0}) : h.countsInt = FALSE /\ SpansData(h)}
    /\ histogramFalse \in {h \in Histograms(0..2) : h.widthInt = FALSE /\ SpansData(h)}
    /\ mixed_thresholds = FALSE
    /\ trueMaxVal \in ValuesIn(histogramTrue, Len(histogramTrue.histogram) - 1)
    /\ falseMinVal \in ValuesIn(histogramFalse, 0)
    /\ RLt(trueMaxVal, falseMinVal)
    /\ i = -1
    /\ false_index = 0
    /\ false_sum = false_total
    /\ true_sum = 0
    /\ lower_mixed_index = None
    /\ upper_mixed_index = None
    /\ threshold = Unset /\ lower = Unset /\ upper = Unset
    /\ tpc = "loop"

(***************************************************************************)
(* getQABits and getModisBadPixelMask (modis_utilities.py 57-77)           *)
(***************************************************************************)
RECURSIVE Pow2(_)
Pow2(n) == IF n = 0 THEN 1 ELSE 2 * Pow2(n - 1)

RECURSIVE BitwiseAnd(_, _)
\* ee.Image.bitwise_and on non-negative integers
BitwiseAnd(a, b) ==
    IF a = 0 \/ b = 0 THEN 0
    ELSE (a % 2) * (b % 2) + 2 * BitwiseAnd(a \div 2, b \div 2)

RECURSIVE Pattern(_, _)
\* lines 60-62: the sum of 2**i for i in range(start, end)
Pattern(start, end) ==
    IF start >= end THEN 0 ELSE Pow2(end - 1) + Pattern(start, end - 1)

\* line 65: bitwise_and with the pattern, then rightShift(start)
getQABits(image, start, end) == BitwiseAnd(image, Pattern(start, end)) \div Pow2(start)

\* line 71: uint16()
qaBand(v) == v % Pow2(16)
\* line 74
cloudBits(v) == getQABits(qaBand(v), 0, 1)
\* line 75: cloudBits.eq(1).Or(cloudBits.eq(2))
getModisBadPixelMask(v) == IF cloudBits(v) = 1 \/ cloudBits(v) = 2 THEN 1 ELSE 0

\* the bit positions getQABits is called with
BitPositions == 0..4

InitQA ==
    /\ state_1km \in 0..MaxQA
    /\ qaStart = 0 /\ qaEnd = 0 /\ qaBits = 0 /\ cloud = 0
    /\ qpc = "start"

CallGetQABits ==
    /\ qpc = "start"
    /\ \E start \in BitPositions, end \in BitPositions :
          /\ qaStart' = start
          /\ qaEnd' = end
          /\ qaBits' = getQABits(state_1km, start, end)
    /\ qpc' = "bits"
    /\ UNCHANGED <<state_1km, cloud>>
    /\ UNCHANGED <<dnnsVars, thresholdVars>>

CallGetModisBadPixelMask ==
    /\ qpc = "start"
    /\ qaStart' = 0
    /\ qaEnd' = 1
    /\ qaBits' = cloudBits(state_1km)
    /\ cloud' = getModisBadPixelMask(state_1km)
    /\ qpc' = "mask"
    /\ UNCHANGED state_1km
    /\ UNCHANGED <<dnnsVars, thresholdVars>>

\* the parts of the state a specification does not use
IdleDnns ==
    /\ b1 = Unset /\ b2 = Unset /\ b6 = Unset
    /\ pureWater = Unset /\ pureLand = Unset /\ dem = Unset
    /\ pureWaterRef = Unset /\ meanPureLand = Unset /\ water_fraction = Unset
    /\ water_high = Unset /\ average_high = Unset /\ flooded = Unset
    /\ averageWaterLocal = Unset /\ averagePureLandLocal = Unset /\ waterOff = Unset
    /\ pc = "idle"
IdleThreshold ==
    /\ histogramTrue = Unset /\ histogramFalse = Unset
    /\ mixed_thresholds = FALSE
    /\ i = 0 /\ true_sum = 0 /\ false_sum = 0 /\ false_index = 0
    /\ lower_mixed_index = Unset /\ upper_mixed_index = Unset
    /\ threshold = Unset /\ lower = Unset /\ upper = Unset
    /\ tpc = "idle"
    /\ trueMaxVal = Unset /\ falseMinVal = Unset
IdleQA ==
    /\ state_1km = 0 /\ qaStart = 0 /\ qaEnd = 0 /\ qaBits = 0 /\ cloud = 0
    /\ qpc = "idle"

Init == InitDnns /\ IdleThreshold /\ IdleQA
Next == Dnns
Spec == Init /\ [][Next]_vars

InitThresholdSpec == InitThreshold /\ IdleDnns /\ IdleQA
NextThreshold == ScanBin \/ ExitLoop \/ Return
SpecThreshold == InitThresholdSpec /\ [][NextThreshold]_vars

InitSeparatedSpec == InitSeparated /\ IdleDnns /\ IdleQA
SpecSeparated == InitSeparatedSpec /\ [][NextThreshold]_vars

InitQASpec == InitQA /\ IdleDnns /\ IdleThreshold
NextQA == CallGetQABits \/ CallGetModisBadPixelMask
SpecQA == InitQASpec /\ [][NextQA]_vars

InitDemSpec == InitDem /\ IdleThreshold /\ IdleQA
NextDem == DnnsDem
SpecDem == InitDemSpec /\ [][NextDem]_vars

InitRevisedSpec == InitRevised /\ IdleThreshold /\ IdleQA
NextRevised == DnnsRevised
SpecRevised == InitRevisedSpec /\ [][NextRevised]_vars


(***************************************************************************)
(* Claims about dnns (specification Spec)                                  *)
(***************************************************************************)
InUnitInterval(a) == IsData(a) /\ RLe(Zero, a) /\ RLe(a, One)

\* the water and land references of pixel p are values
ReferencesDefined(p) ==
    /\ IsData(pureWaterRef[p]["sur_refl_b06"])
    /\ IsData(meanPureLand[p]["sur_refl_b06"])

\* C1: wherever the water and the land reference of a pixel are values
\* (coinciding band-6 references included), the fraction dnns returns for the
\* pixel is a value in [0,1].
C1_FractionInUnitInterval ==
    pc = "dnns_done" =>
        \A p \in Pixels : ReferencesDefined(p) => InUnitInterval(water_fraction[p])

\* C1 witness: a mixed pixel whose land and water band-6 references coincide
\* and differ from its own band 6 (the inversion divides a non-zero difference
\* by zero), and which gets a fraction in [0,1].
C1_Witness ==
    /\ pc = "dnns_done"
    /\ \E p \in Pixels :
          /\ pureWater[p] = 0
          /\ pureLand[p] = 0
          /\ ReferencesDefined(p)
          /\ meanPureLand[p]["sur_refl_b06"] = pureWaterRef[p]["sur_refl_b06"]
          /\ meanPureLand[p]["sur_refl_b06"] # FromInt(b6[p])
          /\ InUnitInterval(water_fraction[p])

\* C2: a pixel that is pure water and not pure land gets fraction exactly 1,
\* whatever value the inversion produced for it.
C2_PureWaterPinnedToOne ==
    pc = "dnns_done" =>
        \A p \in Pixels :
            (/\ pureWater[p] = 1
             /\ pureLand[p] = 0
             /\ IsData(inversion(meanPureLand, pureWaterRef, p)))
                => water_fraction[p] = One

\* C2 witness: a pure-water pixel whose inversion value is 0.
C2_Witness ==
    /\ pc = "dnns_done"
    /\ \E p \in Pixels :
          /\ pureWater[p] = 1
          /\ pureLand[p] = 0
          /\ inversion(meanPureLand, pureWaterRef, p) = Zero
          /\ water_fraction[p] = One

\* C3: a pixel that is pure land and not pure water gets fraction exactly 0,
\* whatever value the inversion produced for it.
C3_PureLandPinnedToZero ==
    pc = "dnns_done" =>
        \A p \in Pixels :
            (/\ pureLand[p] = 1
             /\ pureWater[p] = 0
             /\ IsData(inversion(meanPureLand, pureWaterRef, p)))
                => water_fraction[p] = Zero

\* C3 witness: a pure-land pixel whose inversion value is 1.
C3_Witness ==
    /\ pc = "dnns_done"
    /\ \E p \in Pixels :
          /\ pureLand[p] = 1
          /\ pureWater[p] = 0
          /\ inversion(meanPureLand, pureWaterRef, p) = One
          /\ water_fraction[p] = Zero

\* the input of C7: one constant in every band at every pixel, no pure pixel
ConstantMixedOnly ==
    /\ \E c \in LowBandVals :
          \A p \in Pixels : b1[p] = c /\ b2[p] = c /\ b6[p] = c
    /\ \A p \in Pixels : pureWater[p] = 0 /\ pureLand[p] = 0

\* C7 (as claimed): on constant bands with both pure masks empty, dnns
\* returns a finite fraction in [0,1] at every pixel.
C7_ConstantBandsGiveFraction ==
    (pc = "dnns_done" /\ ConstantMixedOnly) =>
        \A p \in Pixels : InUnitInterval(water_fraction[p])

(***************************************************************************)
(* Claims about the class references (specifications Spec and SpecRevised) *)
(***************************************************************************)
\* the reference the claim describes: the mean of the band over the class
\* members in the window when their number meets the minimum support, else
\* the mean over the class members of the whole region
BlendedReference(cls, band, window, minSupport) ==
    LET S == {q \in window : cls[q] = 1}
    IN  IF Cardinality(S) >= minSupport /\ S # {}
        THEN Rat(SumOver(band, S), Cardinality(S))
        ELSE RegionMean(cls, band)

\* the pure-water reference of dnns is that blend
DnnsReferenceBlend ==
    pc = "dnns_done" =>
        \A p \in Pixels, k \in Bands :
            pureWaterRef[p][k] =
                BlendedReference(pureWater, composite_image(k), kernel(p),
                                 MIN_PUREWATER_NEARBY)

\* the water and land references of dnns_revised are that blend
RevisedReferencesBlend ==
    pc = "revised_done" =>
        \A p \in Pixels, k \in Bands :
            /\ averageWaterLocal[p][k] =
                  BlendedReference(pureWater, composite_image(k), kernel_revised(p),
                                   MIN_PURE_NEARBY_REVISED)
            /\ averagePureLandLocal[p][k] =
                  BlendedReference(pureLand, composite_image(k), kernel_revised(p),
                                   MIN_PURE_NEARBY_REVISED)

\* C13 (as claimed): in every band the reference of a pixel is the local mean
\* of the class when the number of class members in the window meets the
\* minimum support, and the global class mean when it does not.
C13_ReferenceIsLocalOrGlobal == DnnsReferenceBlend /\ RevisedReferencesBlend

\* the ratio of two reflectances (0 where band 6 is 0)
Ratio(a, b) == IF b = 0 THEN Zero ELSE Rat(a, b)

\* the neighbours of p that the claim counts as nearby-land samples: r1
\* strictly between L1 and the r1 of p, r2 strictly between L2 and the r2 of p,
\* with L = r - (water reference of the band) / b6 at p
QualifyingNeighbours(p) ==
    LET w1 == pureWaterRef[p]["sur_refl_b01"]
        w2 == pureWaterRef[p]["sur_refl_b02"]
        r1 == Ratio(b1[p], b6[p])
        r2 == Ratio(b2[p], b6[p])
        L1 == ImgSubtract(r1, ImgDivide(w1, FromInt(b6[p])))
        L2 == ImgSubtract(r2, ImgDivide(w2, FromInt(b6[p])))
    IN  IF ~IsData(w1) \/ ~IsData(w2) THEN {}
        ELSE {q \in kernel(p) :
                /\ RLt(L1, Ratio(b1[q], b6[q])) /\ RLt(Ratio(b1[q], b6[q]), r1)
                /\ RLt(L2, Ratio(b2[q], b6[q])) /\ RLt(Ratio(b2[q], b6[q]), r2)}

\* the land reference the claim describes
LandReferenceClaimed(p, k) ==
    LET Q == QualifyingNeighbours(p)
    IN  IF Q # {} THEN Rat(SumOver(composite_image(k), Q), Cardinality(Q))
        ELSE RegionMean(pureLand, composite_image(k))

\* C15 (as claimed): the land reference of a pixel is the per-band mean of b1,
\* b2, b6 over the neighbours that qualify when at least one does (the pixel
\* itself never does), and the global pure-land triple when none does.
C15_LandReferenceFromQualifyingNeighbours ==
    pc = "dnns_done" =>
        \A p \in Pixels :
            /\ p \notin QualifyingNeighbours(p)
            /\ \A k \in Bands : meanPureLand[p][k] = LandReferenceClaimed(p, k)

(***************************************************************************)
(* Claims about dnns_dem (specification SpecDem)                           *)
(***************************************************************************)
\* C6: a DEM pixel inside a MODIS pixel of fraction exactly 0 is not flooded,
\* and one inside a MODIS pixel of fraction exactly 1 is flooded.
C6_EmptyDryFullFlooded ==
    pc = "dem_done" =>
        \A f \in DemPixels :
            /\ FractionAt(water_fraction, f) = Zero => flooded[f] # One
            /\ FractionAt(water_fraction, f) = One => flooded[f] = One

\* C6 witness: a DEM pixel of a fraction-0 pixel that lies at or below the
\* smoothed water elevation, and a DEM pixel of a fraction-1 pixel above it.
C6_Witness ==
    /\ pc = "dem_done"
    /\ \E f \in DemPixels :
          /\ FractionAt(water_fraction, f) = Zero
          /\ IsData(average_high[f])
          /\ RLt(Zero, average_high[f])
          /\ RLe(FromInt(dem[f]), average_high[f])
          /\ flooded[f] # One
    /\ \E f \in DemPixels :
          /\ FractionAt(water_fraction, f) = One
          /\ IsData(average_high[f])
          /\ RLt(average_high[f], FromInt(dem[f]))
          /\ flooded[f] = One

\* the cells of the window of f that have a non-zero candidate elevation
NonZeroCandidates(f) ==
    {g \in water_dem_kernel(f) : IsData(water_high[g]) /\ water_high[g].n # 0}

\* C14 (as claimed): average_high of a cell is the sum of the non-zero
\* candidates water_high of the cells in its window divided by the number of
\* cells that have one, for all elevations, zero and negative ones included;
\* the cells of fraction 0 or 1 have no non-zero candidate.
C14_AverageOfNonZeroCandidates ==
    pc = "dem_done" =>
        /\ \A f \in DemPixels :
              NonZeroCandidates(f) # {} =>
                  average_high[f] =
                      ImgDivide(RatSum(water_high, NonZeroCandidates(f)),
                                FromInt(Cardinality(NonZeroCandidates(f))))
        /\ \A g \in DemPixels :
              FractionAt(water_fraction, g) \in {Zero, One} =>
                  water_high[g] \in {Zero, NoData}


(***************************************************************************)
(* Claims about compute_binary_threshold                                   *)
(* (specifications SpecThreshold and SpecSeparated)                        *)
(***************************************************************************)
TrueBins == 0..(Len(histogramTrue.histogram) - 1)
LastBin == Len(histogramTrue.histogram) - 1

\* what the claims speak of, worked out from the histograms alone:
\* the true population up to and including bin k
TrueUpTo(k) == SeqSum(SubSeq(histogramTrue.histogram, 1, k + 1))
\* the upper edge of bin k
UpperEdge(k) == histogramTrue.bucketMin + (k + 1) * histogramTrue.bucketWidth
\* the false population left at bin k: the total less the false buckets that
\* start below the upper edge of bin k
RECURSIVE FalseBelow(_, _)
FalseBelow(k, j) ==
    IF j = 0 THEN 0
    ELSE FalseBelow(k, j - 1) +
         (IF histogramFalse.bucketMin + (j - 1) * histogramFalse.bucketWidth < UpperEdge(k)
          THEN histogramFalse.histogram[j] ELSE 0)
FalseLeftAt(k) == false_total - FalseBelow(k, Len(histogramFalse.histogram))
\* the midpoint of bin k
Midpoint(k) ==
    Rat(2 * (histogramTrue.bucketMin + k * histogramTrue.bucketWidth)
            + histogramTrue.bucketWidth, 2)
\* the least element of a non-empty set of bins, and the greatest
FirstOf(S) == CHOOSE k \in S : \A m \in S : k <= m
LastOf(S) == CHOOSE k \in S : \A m \in S : k >= m

\* C4 (as claimed): in single-threshold mode on two classes that do not
\* overlap, the threshold lies strictly between the largest true value and the
\* smallest false value.  Stated for histograms whose numbers are floats, where
\* no division is floored.
C4_ThresholdSeparates ==
    (/\ tpc = "returned"
     /\ ~mixed_thresholds
     /\ ~histogramTrue.widthInt
     /\ ~histogramFalse.countsInt) =>
        RLt(trueMaxVal, threshold) /\ RLt(threshold, falseMinVal)

\* C5: in mixed mode the returned pair satisfies lower <= upper.
C5_LowerAtMostUpper ==
    (tpc = "returned" /\ mixed_thresholds) => RLe(lower, upper)

\* C5 witness: a returned pair whose lower index was above its upper index, so
\* that the swap happened.
C5_Witness ==
    /\ tpc = "returned"
    /\ mixed_thresholds
    /\ lower_mixed_index[1] > upper_mixed_index[1]
    /\ RLt(lower, upper)

\* the bins at which the two percentages, taken as exact ratios, meet the test
\* of the single-threshold scan
ExactBreakBins ==
    {k \in TrueBins :
        /\ FalseLeftAt(k) * true_total < TrueUpTo(k) * false_total
        /\ 2 * TrueUpTo(k) > true_total}

\* C9 (as claimed): the single threshold is the midpoint of the first bin at
\* which percent_false_over < percent_true_under and percent_true_under > 0.5
\* hold for the exact ratios, and the midpoint of the last bin if there is none.
C9_SingleThresholdIsFirstBinMidpoint ==
    (tpc = "returned" /\ ~mixed_thresholds) =>
        threshold = Midpoint(IF ExactBreakBins = {} THEN LastBin
                             ELSE FirstOf(ExactBreakBins))

\* the bins at which the two ratios of the mixed scan are at most 0.05
LowerBins ==
    {k \in TrueBins :
        TrueUpTo(k) > 0 /\ MIXED_RATIO_INV * (false_total - FalseLeftAt(k)) <= TrueUpTo(k)}
UpperBins ==
    {k \in TrueBins :
        FalseLeftAt(k) > 0 /\ MIXED_RATIO_INV * (true_total - TrueUpTo(k)) <= FalseLeftAt(k)}

C11_UnsetIndexRaises ==
    (mixed_thresholds /\ (LowerBins = {} \/ UpperBins = {})) =>
        /\ tpc # "returned"
        /\ lower = Unset
        /\ upper = Unset

\* C11 witness: the scan went through every bin without a division by zero,
\* the upper index got set and the lower one never did, and the return
\* statement raised.
C11_Witness ==
    /\ mixed_thresholds
    /\ tpc = "error"
    /\ i = LastBin
    /\ LowerBins = {}
    /\ lower_mixed_index = None
    /\ upper_mixed_index # None
    /\ lower = Unset /\ upper = Unset


\* the counts of the false buckets j with from < j <= to
RECURSIVE CountsBetween(_, _)
CountsBetween(from, to) ==
    IF to <= from THEN 0
    ELSE histogramFalse.histogram[to] + CountsBetween(from, to - 1)

\* what one step of the scan does to false_index and false_sum: the index
\* never decreases and never exceeds the number of false buckets, the buckets
\* it passes are subtracted once each, false_sum stays in 0..false_total and,
\* after bin i, is the total less the false buckets that start below the upper
\* edge of bin i
ScanStepBookkeeping ==
    /\ false_index' >= false_index
    /\ false_index' <= Len(histogramFalse.histogram)
    /\ false_sum - false_sum' = CountsBetween(false_index, false_index')
    /\ 0 <= false_sum' /\ false_sum' <= false_total
    /\ i' >= 0 => false_sum' = FalseLeftAt(i')

\* C12 (as claimed): the bookkeeping above, and false_sum is the false-class
\* population at or above x, the upper edge of the bin just processed: when no
\* false value lies below x, false_sum is still false_total.
C12_FalseSumIsPopulationAbove ==
    [][/\ ScanStepBookkeeping
       /\ (i' >= 0 /\ RLe(FromInt(UpperEdge(i')), falseMinVal))
              => false_sum' = false_total]_vars


\* C16 (as claimed): the mixed scan never divides by zero: after every bin
\* true_sum, the divisor of the lower test, is not 0, and while the upper index
\* is unset false_sum, the divisor of the upper test, is not 0.
C16_MixedScanNeverDividesByZero ==
    (mixed_thresholds /\ i >= 0) =>
        /\ true_sum # 0
        /\ upper_mixed_index = None => false_sum # 0


(***************************************************************************)
(* Claims about the quality bits (specification SpecQA)                    *)
(***************************************************************************)
\* the integer made of bits start..end-1 of v, shifted down to bit 0
BitField(v, start, end) ==
    IF end <= start THEN 0 ELSE (v \div Pow2(start)) % Pow2(end - start)

\* C8 (as claimed): getQABits returns bits start..end-1 of the value shifted
\* down to bit 0, and a pixel is flagged as cloud exactly when the 2-bit
\* cloud-state field (bits 0 and 1) of its quality value is 1 or 2.
C8_CloudStateDecoded ==
    /\ qpc = "bits" => qaBits = BitField(state_1km, qaStart, qaEnd)
    /\ qpc = "mask" => (cloud = 1 <=> BitField(state_1km, 0, 2) \in {1, 2})

=============================================================================
